---------------------------- MODULE Spec2Model ----------------------------
(***************************************************************************)
(* FieldTuner 3.0: the configuration persistence and editing model.        *)
(*                                                                         *)
(*   ConfigManager   src/src/core/config_manager.py                        *)
(*   BackupManager   src/src/core/backup_manager.py                        *)
(*   presets         src/src/core/presets.py                               *)
(*   MainWindow      src/src/ui/main_window.py (the edit session)          *)
(*                                                                         *)
(* A text is a sequence of characters; a character is a one-character      *)
(* string.  Keys and values are texts.  The single letters "a", "b" stand  *)
(* for setting identifiers such as GstRender.VSyncMode, which the parser   *)
(* treats alike: a run of non-blank characters.                            *)
(***************************************************************************)
EXTENDS Integers, Sequences, FiniteSets, TLC

VARIABLES
    disk,               \* content of the config file on disk, or Missing
    config_path,        \* ConfigManager.config_path: NoPath or CfgPath
    config_data,        \* ConfigManager.config_data: insertion-ordered dict
    original_content,   \* ConfigManager.original_content
    raw_lines,          \* ConfigManager._raw_lines
    running,            \* the environment: is a Battlefield process alive
    modified_settings,  \* MainWindow.modified_settings
    backups,            \* the backup directory: name -> stored backup
    now,                \* the wall clock, in sub-second ticks
    last,               \* the step taken last and the outcome it reported
    taken               \* history: <<name, content>> of every backup handed out

vars == <<disk, config_path, config_data, original_content, raw_lines,
          running, modified_settings, backups, now, last, taken>>

-----------------------------------------------------------------------------
(* Bounds of the model.                                                    *)

\* the clock stops after this many ticks
MaxClock == 3
\* clock ticks per wall-clock second (the resolution of '%H%M%S' is 1 s)
TicksPerSecond == 2

-----------------------------------------------------------------------------
(* Characters and texts.                                                   *)

SP  == " "
NL  == "\n"
TAB == "\t"

\* str.strip() with no argument strips every whitespace character
IsSpace(c) == c \in {SP, TAB, NL}

\* a line "key value"
KV(k, v) == k \o <<SP>> \o v

\* the keys and values the user interface can hand to set()
KeyA == <<"a">>
KeyB == <<"b">>
Val1 == <<"1">>
Val2 == <<"2">>

RECURSIVE LStrip(_)
LStrip(s) ==
    IF s = << >> THEN << >>
    ELSE IF IsSpace(Head(s)) THEN LStrip(Tail(s)) ELSE s

RECURSIVE RStrip(_)
RStrip(s) ==
    IF s = << >> THEN << >>
    ELSE IF IsSpace(s[Len(s)]) THEN RStrip(SubSeq(s, 1, Len(s) - 1)) ELSE s

\* str.strip()
Strip(s) == RStrip(LStrip(s))

\* index of the first occurrence of character c in s, 0 when there is none
RECURSIVE IndexOf(_, _, _)
IndexOf(s, c, i) ==
    IF i > Len(s) THEN 0
    ELSE IF s[i] = c THEN i ELSE IndexOf(s, c, i + 1)

\* str.split(' ', 1): one part when s holds no space, else the text before
\* the first space and everything after it
SplitSpace1(s) ==
    LET i == IndexOf(s, SP, 1)
    IN  IF i = 0 THEN <<s>>
        ELSE <<SubSeq(s, 1, i - 1), SubSeq(s, i + 1, Len(s))>>

\* str.splitlines(): lines end at "\n"; a final line break opens no new line
RECURSIVE SplitLines(_)
SplitLines(s) ==
    IF s = << >> THEN << >>
    ELSE LET i == IndexOf(s, NL, 1)
         IN  IF i = 0 THEN <<s>>
             ELSE <<SubSeq(s, 1, i - 1)>> \o SplitLines(SubSeq(s, i + 1, Len(s)))

\* '\n'.join(lines)
RECURSIVE Join(_)
Join(lines) ==
    IF lines = << >> THEN << >>
    ELSE IF Len(lines) = 1 THEN lines[1]
    ELSE lines[1] \o <<NL>> \o Join(Tail(lines))

\* '\n'.join(new_lines) + '\n'
JoinNL(lines) == Join(lines) \o <<NL>>

-----------------------------------------------------------------------------
(* The insertion-ordered dict: a sequence of <<key, value>> pairs with     *)
(* pairwise different keys.                                                *)

DictKeys(d) == {d[i][1] : i \in 1..Len(d)}

DictHas(d, k) == k \in DictKeys(d)

DictIndex(d, k) == CHOOSE i \in 1..Len(d) : d[i][1] = k

\* d[k] = v: an existing key keeps its position, a new key goes last
DictSet(d, k, v) ==
    IF DictHas(d, k) THEN [d EXCEPT ![DictIndex(d, k)] = <<k, v>>]
    ELSE Append(d, <<k, v>>)

\* d.get(k, default)
DictGet(d, k, default) ==
    IF DictHas(d, k) THEN d[DictIndex(d, k)][2] ELSE default

-----------------------------------------------------------------------------
(* ConfigManager: parsing and serialization.                               *)

\* "no such file": a sequence no text equals (a text holds characters only)
Missing == <<"<missing>">>
NoPath  == "NoPath"
CfgPath == "PROFSAVE_profile"

\* one iteration of the loop of _parse_config
ParseLine(d, line) ==
    LET s == Strip(line)
    IN  IF s = << >> THEN d
        ELSE LET parts == SplitSpace1(s)
             IN  IF Len(parts) >= 2
                 THEN DictSet(d, Strip(parts[1]), Strip(parts[2]))
                 ELSE d

RECURSIVE ParseLines(_, _)
ParseLines(d, lines) ==
    IF lines = << >> THEN d
    ELSE ParseLines(ParseLine(d, Head(lines)), Tail(lines))

\* _parse_config: config_data.clear(), then one pass over content.splitlines()
ParseConfig(content) == ParseLines(<< >>, SplitLines(content))

\* the key save() and has_changes() read off a non-blank line
LineKey(line) == Strip(SplitSpace1(Strip(line))[1])

\* what the loop of save() and of has_changes() emits for one stored line
RewriteLine(line, data) ==
    IF Strip(line) = << >> THEN line
    ELSE IF DictHas(data, LineKey(line))
         THEN KV(LineKey(line), DictGet(data, LineKey(line), << >>))
         ELSE line

RewriteLines(lines, data) ==
    [i \in 1..Len(lines) |-> RewriteLine(lines[i], data)]

\* processed_keys at the end of the loop of save()
ProcessedKeys(lines, data) ==
    {LineKey(lines[i]) : i \in {j \in 1..Len(lines) : Strip(lines[j]) # << >>}}
        \cap DictKeys(data)

\* "Add any new keys not in original file", in the order of config_data
RECURSIVE NewKeyLines(_, _)
NewKeyLines(data, processed) ==
    IF data = << >> THEN << >>
    ELSE (IF Head(data)[1] \in processed THEN << >>
          ELSE <<KV(Head(data)[1], Head(data)[2])>>)
         \o NewKeyLines(Tail(data), processed)

\* new_lines of save()
NewLines(lines, data) ==
    RewriteLines(lines, data) \o NewKeyLines(data, ProcessedKeys(lines, data))

\* the text save() writes
Serialize(lines, data) == JoinNL(NewLines(lines, data))

\* load() of a readable text file: original_content, _raw_lines, config_data
LoadOp(content) ==
    [original_content |-> content,
     raw_lines        |-> SplitLines(content),
     config_data      |-> ParseConfig(content)]

\* the null byte
NUL == "\\0"
\* b'PROFSAVE', the first bytes of the binary variant
Signature == <<"P", "R", "O", "F", "S", "A", "V", "E">>
\* f.read(100)
HeaderLen == 100
Header(content) ==
    SubSeq(content, 1, IF Len(content) < HeaderLen THEN Len(content)
                       ELSE HeaderLen)

\* a file that exists and that open() refuses
Unreadable == <<"<unreadable>">>

\* _is_text_format as it would be if it looked for the signature only: the
\* variant the rejection of binary files is tested against
IsTextFormat_SignatureOnly(content) ==
    IF content = Unreadable THEN FALSE
    ELSE LET header == Header(content)
         IN  ~(/\ Len(header) >= Len(Signature)
               /\ SubSeq(header, 1, Len(Signature)) = Signature)

\* _is_text_format(path): False for the binary variant, and False when
\* reading the header raises
IsTextFormat(content) ==
    IF content = Unreadable THEN FALSE
    ELSE LET header == Header(content)
         IN  ~(\/ /\ Len(header) >= Len(Signature)
                  /\ SubSeq(header, 1, Len(Signature)) = Signature
               \/ \E i \in 1..Len(header) : header[i] = NUL)

\* read_text raising although the header could be read
ReadFaults == {"none", "read"}

\* how load() ends on a file: "missing" (it returns False), "ValueError"
\* (raised at line 118), "RuntimeError" (raised at line 131), "loaded" (it
\* returns True)
LoadWhy(content, rfault) ==
    IF content = Missing THEN "missing"
    ELSE IF ~IsTextFormat(content) THEN "ValueError"
    ELSE IF rfault = "read" THEN "RuntimeError"
    ELSE "loaded"

\* the ends of load() that are exceptions leaving load()
LoadExceptions == {"ValueError", "RuntimeError"}

\* update() as it would be if a setting were added to what the key holds
\* and not written over it: the variant idempotence is tested against
RECURSIVE Update_Accumulate(_, _)
Update_Accumulate(data, changes) ==
    IF changes = << >> THEN data
    ELSE Update_Accumulate(
             DictSet(data, Head(changes)[1],
                     DictGet(data, Head(changes)[1], << >>)
                        \o Head(changes)[2]),
             Tail(changes))

\* update(changes): set() for every item, in the order of the dict
RECURSIVE Update(_, _)
Update(data, changes) ==
    IF changes = << >> THEN data
    ELSE Update(DictSet(data, Head(changes)[1], Head(changes)[2]), Tail(changes))

WriteFaults == {"none", "open", "write"}

\* save() as it would be without the check of lines 171-172: the variant
\* the guard's property is tested against
SaveOp_NoGuard(path, lines, data, orig, content, isRunning, wfault) ==
    LET same(ok, why, c) ==
            [ok |-> ok, why |-> why, disk |-> c,
             original_content |-> orig, raw_lines |-> lines]
    IN  IF path = NoPath THEN same(FALSE, "no_path", content)
        ELSE IF wfault = "open" THEN same(FALSE, "failed", content)
        ELSE IF wfault = "write" THEN same(FALSE, "failed", << >>)
        ELSE [ok |-> TRUE, why |-> "saved",
              disk |-> Serialize(lines, data),
              original_content |-> Serialize(lines, data),
              raw_lines |-> NewLines(lines, data)]

\* save() with path=None.  isRunning is what is_battlefield_running()
\* answers; wfault names how write_text fails: at open (the file stays as
\* it is) or while writing (the file is left truncated).  Yields the result,
\* the file's content and the two fields save() assigns.
SaveOp(path, lines, data, orig, content, isRunning, wfault) ==
    LET same(ok, why, c) ==
            [ok |-> ok, why |-> why, disk |-> c,
             original_content |-> orig, raw_lines |-> lines]
    IN  IF path = NoPath THEN same(FALSE, "no_path", content)
        ELSE IF isRunning THEN same(FALSE, "game_running", content)
        ELSE IF wfault = "open" THEN same(FALSE, "failed", content)
        ELSE IF wfault = "write" THEN same(FALSE, "failed", << >>)
        ELSE [ok |-> TRUE, why |-> "saved",
              disk |-> Serialize(lines, data),
              original_content |-> Serialize(lines, data),
              raw_lines |-> NewLines(lines, data)]

\* has_changes()
HasChanges(lines, data) ==
    IF lines = << >> THEN FALSE
    ELSE Join(RewriteLines(lines, data)) # Join(lines)

-----------------------------------------------------------------------------
(* BackupManager.  A backup is a directory                                 *)
(*   backup_<%Y%m%d_%H%M%S>[_<sanitized description, 30 characters>]       *)
(* holding a copy of the config file and metadata.json.  The name is       *)
(* modelled by its two parts: the second of the clock and the sanitized    *)
(* description.  There is one config file, so 'original_path' and          *)
(* 'file_name' of the metadata are the same in every backup and are left   *)
(* out.                                                                    *)

SecondsPerDay == 86400

\* strftime('%Y%m%d_%H%M%S'): the clock cut to whole seconds
SecondOf(t) == t \div TicksPerSecond
\* the '%Y%m%d' part of a timestamp
DateOf(sec) == sec \div SecondsPerDay

NullSafe == [label |-> "", date |-> -1]
NullName == [ts |-> -1, desc |-> NullSafe]
\* the name "": backup_dir / "" is the backup directory itself
EmptyName == [ts |-> -2, desc |-> NullSafe]

\* a description as passed to create_backup: a fixed word, or
\* f"before_restore_{backup_name}" (label "before_restore", of = backup_name)
Desc(word) == [label |-> word, of |-> NullName]
BeforeRestore(name) == [label |-> "before_restore", of |-> name]

\* safe_desc[:30].  The fixed words are alphanumerics and '_' and shorter
\* than 30, so they stay.  "before_restore_backup_YYYYMMDD_HHMMSS_..." is cut
\* after the date: 15 + 7 + 8 = 30 characters.
SafeDesc(description) ==
    [label |-> description.label,
     date  |-> IF description.label = "before_restore"
               THEN DateOf(description.of.ts) ELSE -1]

\* backup_name of create_backup at clock t
BackupName(t, description) ==
    [ts |-> SecondOf(t), desc |-> SafeDesc(description)]

NoMeta == [state |-> "none", timestamp |-> -1, datetime |-> -1,
           description |-> Desc(""), file_size |-> -1]
\* a metadata.json that json.load cannot read
CorruptMeta == [NoMeta EXCEPT !.state = "corrupt"]

\* an item of the backup directory that is a plain file and no directory:
\* the flat layout of a backup, the file itself being the copy
FlatMeta == [NoMeta EXCEPT !.state = "flat"]
IsFlat(entry) == entry.meta.state = "flat"

\* the directory right after mkdir
EmptyDir == [file |-> Missing, meta |-> NoMeta]

Put(store, name, entry) ==
    [n \in DOMAIN store \cup {name} |-> IF n = name THEN entry ELSE store[n]]

Remove(store, names) == [n \in DOMAIN store \ names |-> store[n]]

Faults == {"none", "mkdir", "copy", "dump"}

\* create_backup(config_path, description) at clock t, with the content the
\* config file holds.  fault names the statement of the try block that
\* raises: mkdir (nothing is written), shutil.copy2 (the directory exists,
\* the file is not copied), json.dump (metadata.json is opened for writing
\* and left incomplete).  Yields the store and the returned path.
CreateBackupOp(store, path, content, description, t, fault) ==
    IF path = NoPath \/ content = Missing
    THEN [store |-> store, ok |-> FALSE, name |-> NullName]
    ELSE IF /\ BackupName(t, description) \in DOMAIN store
            /\ IsFlat(store[BackupName(t, description)])
    THEN [store |-> store, ok |-> FALSE, name |-> NullName]
    ELSE LET name == BackupName(t, description)
             old  == IF name \in DOMAIN store THEN store[name] ELSE EmptyDir
             meta == [state |-> "ok", timestamp |-> SecondOf(t), datetime |-> t,
                      description |-> description, file_size |-> Len(content)]
         IN  CASE fault = "mkdir" ->
                    [store |-> store, ok |-> FALSE, name |-> NullName]
               [] fault = "copy" ->
                    [store |-> Put(store, name, old), ok |-> FALSE,
                     name |-> NullName]
               [] fault = "dump" ->
                    [store |-> Put(store, name,
                                   [file |-> content, meta |-> CorruptMeta]),
                     ok |-> FALSE, name |-> NullName]
               [] OTHER ->
                    [store |-> Put(store, name, [file |-> content, meta |-> meta]),
                     ok |-> TRUE, name |-> name]

\* the order of sorted(self.backup_dir.iterdir()): by directory name, that is
\* by timestamp and then by the sanitized description as a string
LabelRank(label) ==
    CASE label = "app_start"      -> 1
      [] label = "before_restore" -> 2
      [] label = "before_save"    -> 3
      [] label = "manual"         -> 4
      [] OTHER                    -> 0

NameLess(n1, n2) ==
    \/ n1.ts < n2.ts
    \/ /\ n1.ts = n2.ts
       /\ \/ LabelRank(n1.desc.label) < LabelRank(n2.desc.label)
          \/ /\ n1.desc.label = n2.desc.label
             /\ n1.desc.date < n2.desc.date

\* sorted(..., reverse=True) as a sequence of names
RECURSIVE SortedDesc(_)
SortedDesc(names) ==
    IF names = {} THEN << >>
    ELSE LET top == CHOOSE n \in names : \A m \in names \ {n} : NameLess(m, n)
         IN  <<top>> \o SortedDesc(names \ {top})

\* the loop of get_backups: an item that is no directory is passed over;
\* json.load raising on one directory ends the loop, and the entries
\* collected so far are returned
RECURSIVE ListUntilCorrupt(_, _)
ListUntilCorrupt(store, names) ==
    IF names = << >> THEN << >>
    ELSE IF IsFlat(store[Head(names)])
    THEN ListUntilCorrupt(store, Tail(names))
    ELSE IF store[Head(names)].meta.state = "corrupt" THEN << >>
    ELSE <<Head(names)>> \o ListUntilCorrupt(store, Tail(names))

\* the 'metadata' of an entry of get_backups: what metadata.json holds, or
\* for a directory without one the second '_' field of the name (the date
\* of the timestamp) and the description 'No metadata'
EntryMetadata(store, name) ==
    IF store[name].meta.state = "none"
    THEN [NoMeta EXCEPT !.timestamp = DateOf(name.ts),
                        !.description = Desc("No metadata")]
    ELSE store[name].meta

\* get_backups(), as the names it lists
GetBackups(store) == ListUntilCorrupt(store, SortedDesc(DOMAIN store))

\* restore_backup(backup_name, target_path).  cfault is the fault of the
\* create_backup it calls, copyfails whether the final shutil.copy2 raises.
\* Yields the store, the target's content and the result.
RestoreBackupOp(store, name, path, content, t, cfault, copyfails) ==
    IF name = EmptyName
    THEN [store |-> store, disk |-> content, ok |-> FALSE, why |-> "no_file"]
    ELSE IF name \notin DOMAIN store
    THEN [store |-> store, disk |-> content, ok |-> FALSE, why |-> "not_found"]
    ELSE IF IsFlat(store[name])
    THEN [store |-> store, disk |-> content, ok |-> FALSE, why |-> "failed"]
    ELSE IF store[name].file = Missing
    THEN [store |-> store, disk |-> content, ok |-> FALSE, why |-> "no_file"]
    ELSE IF path = NoPath
    THEN [store |-> store, disk |-> content, ok |-> FALSE, why |-> "failed"]
    ELSE LET made == IF content # Missing
                     THEN CreateBackupOp(store, path, content,
                                         BeforeRestore(name), t, cfault).store
                     ELSE store
         IN  IF copyfails
             THEN [store |-> made, disk |-> content, ok |-> FALSE,
                   why |-> "failed"]
             ELSE [store |-> made, disk |-> made[name].file, ok |-> TRUE,
                   why |-> "restored"]

\* delete_backup(backup_name); for the name "" the path that exists and is
\* removed is the backup directory with all it holds
DeleteBackupOp(store, name) ==
    IF name = EmptyName
    THEN [store |-> << >>, ok |-> TRUE]
    ELSE IF name \notin DOMAIN store
    THEN [store |-> store, ok |-> FALSE]
    ELSE IF IsFlat(store[name])
    THEN [store |-> store, ok |-> FALSE]
    ELSE [store |-> Remove(store, {name}), ok |-> TRUE]

\* cleanup_old_backups(keep_count): delete_backup of backups[keep_count:]
CleanupOp(store, keep_count) ==
    LET listed == GetBackups(store)
    IN  IF Len(listed) <= keep_count THEN store
        ELSE Remove(store, {listed[i] : i \in (keep_count + 1)..Len(listed)})

-----------------------------------------------------------------------------
(* presets.PRESETS, cut to two presets over the model's keys.              *)

PresetIds == {"esports", "quality"}

PresetSettings(id) ==
    IF id = "esports" THEN <<<<KeyA, Val1>>, <<KeyB, Val2>>>>
    ELSE <<<<KeyA, Val2>>>>

\* apply_preset as it would be if it stopped after the first entry: the
\* variant the apply contract is tested against
ApplyPresetOp_FirstOnly(data, id) ==
    IF id \notin PresetIds
    THEN [ok |-> FALSE, config_data |-> data, count |-> 0]
    ELSE [ok |-> TRUE,
          config_data |-> Update(data, <<Head(PresetSettings(id))>>),
          count |-> Len(PresetSettings(id))]

\* apply_preset(config_manager, preset_key)
ApplyPresetOp(data, id) ==
    IF id \notin PresetIds
    THEN [ok |-> FALSE, config_data |-> data, count |-> 0]
    ELSE [ok |-> TRUE, config_data |-> Update(data, PresetSettings(id)),
          count |-> Len(PresetSettings(id))]

-----------------------------------------------------------------------------
(* The inputs of the model.                                                *)

\* the most lines a generated file has
MaxLines == 2

\* the shapes a line of a config file takes: "a 1", "a 2", "b 1", a blank
\* line, " a  1 " (blanks around key and value), "a" (a key with no value)
LineForms ==
    {KV(KeyA, Val1), KV(KeyA, Val2), KV(KeyB, Val1), << >>,
     <<SP>> \o KeyA \o <<SP, SP>> \o Val1 \o <<SP>>, KeyA}

RECURSIVE LineSeqs(_)
LineSeqs(n) ==
    IF n = 0 THEN {<< >>}
    ELSE LineSeqs(n - 1) \cup
         {Append(ls, l) : ls \in {x \in LineSeqs(n - 1) : Len(x) = n - 1},
                          l \in LineForms}

\* every file of at most MaxLines such lines, with and without a line break
\* after the last line; the empty file is among them
DocFiles == {JoinNL(ls) : ls \in LineSeqs(MaxLines) \ {<< >>}}
            \cup {Join(ls) : ls \in LineSeqs(MaxLines)}

\* "a 1 / b 1": one setting per line
FilePlain == JoinNL(<<KV(KeyA, Val1), KV(KeyB, Val1)>>)
\* "a 1 / (blank) / a 2": a key on two lines, and a blank line
FileDup   == JoinNL(<<KV(KeyA, Val1), << >>, KV(KeyA, Val2)>>)
\* "b 2"
FileOther == JoinNL(<<KV(KeyB, Val2)>>)

\* the config file the application finds at start
InitFiles == {FilePlain, FileDup}
\* what another program (the game, an editor) leaves of the file
ExtFiles  == {FileOther, Missing}

SetKeys   == {KeyA, KeyB}
SetValues == {Val1, Val2}
KeepCounts == {0, 1, 2}
StoreFiles == {FilePlain, FileOther, Missing}
\* the create_backup outcomes followed in the edit session: success, and the
\* failure that returns None with the backup directory as it was; the
\* failures that leave a partial backup behind are followed in SpecStore
UiFaults == {"none", "mkdir"}
ManualDescs == {Desc("manual")}
\* names of no backup that restore_backup and delete_backup are called with
UnknownNames == {NullName, EmptyName}

Outcome(op, ok, why, key, name) ==
    [op |-> op, ok |-> ok, why |-> why, key |-> key, name |-> name]

\* the pairs of taken whose backup a changed store still holds
Kept(pairs, store) == {p \in pairs : p[1] \in DOMAIN store}

-----------------------------------------------------------------------------
(* The environment.                                                        *)

\* time passes
Tick ==
    /\ now < MaxClock
    /\ now' = now + 1
    /\ last' = Outcome("tick", TRUE, "", << >>, NullName)
    /\ UNCHANGED <<disk, config_path, config_data, original_content,
                   raw_lines, running, modified_settings, backups, taken>>

\* the game is started or closed
ToggleGame ==
    /\ running' = ~running
    /\ last' = Outcome("game", TRUE, "", << >>, NullName)
    /\ UNCHANGED <<disk, config_path, config_data, original_content,
                   raw_lines, modified_settings, backups, now, taken>>

\* another program rewrites or removes the config file
ExternalEdit(content) ==
    /\ config_path # NoPath
    /\ content # disk
    /\ disk' = content
    /\ last' = Outcome("edit", TRUE, "", << >>, NullName)
    /\ UNCHANGED <<config_path, config_data, original_content, raw_lines,
                   running, modified_settings, backups, now, taken>>

-----------------------------------------------------------------------------
(* ConfigManager used on its own: ConfigManager(path) on a text file, then *)
(* set(), save() and reload() in any order.                                *)

InitDoc ==
    /\ disk \in DocFiles
    /\ config_path = CfgPath
    /\ original_content = LoadOp(disk).original_content
    /\ raw_lines = LoadOp(disk).raw_lines
    /\ config_data = LoadOp(disk).config_data
    /\ running \in BOOLEAN
    /\ modified_settings = {}
    /\ backups = << >>
    /\ taken = {}
    /\ now = 0
    /\ last = Outcome("load", TRUE, "loaded", << >>, NullName)

\* set(key, value)
Set(key, value) ==
    /\ config_data' = DictSet(config_data, key, value)
    /\ last' = Outcome("set", TRUE, "", key, NullName)
    /\ UNCHANGED <<disk, config_path, original_content, raw_lines, running,
                   modified_settings, backups, now, taken>>

\* save()
Save ==
    /\ \E wfault \in WriteFaults :
         LET s == SaveOp(config_path, raw_lines, config_data, original_content,
                         disk, running, wfault)
         IN  /\ disk' = s.disk
             /\ original_content' = s.original_content
             /\ raw_lines' = s.raw_lines
             /\ last' = Outcome("save", s.ok, s.why, << >>, NullName)
    /\ UNCHANGED <<config_path, config_data, running, modified_settings,
                   backups, now, taken>>

\* reload(): load(config_path)
Reload ==
    /\ config_path # NoPath
    /\ \E rfault \in ReadFaults :
         LET why == LoadWhy(disk, rfault)
         IN  /\ IF why = "loaded"
                THEN /\ original_content' = LoadOp(disk).original_content
                     /\ raw_lines' = LoadOp(disk).raw_lines
                     /\ config_data' = LoadOp(disk).config_data
                ELSE UNCHANGED <<original_content, raw_lines, config_data>>
             /\ last' = Outcome("load", why = "loaded", why, << >>, NullName)
    /\ UNCHANGED <<disk, config_path, running, modified_settings, backups,
                   now, taken>>

NextDoc ==
    \/ \E key \in SetKeys, value \in SetValues : Set(key, value)
    \/ Save
    \/ Reload
    \/ ToggleGame

SpecDoc == InitDoc /\ [][NextDoc]_vars

-----------------------------------------------------------------------------
(* ConfigManager.load on what another program leaves at the config path:   *)
(* text, the binary variant, a file that cannot be read, no file.          *)

\* "PROFSAVE" followed by "a 1": the signature
FileBinary == Signature \o <<NL>> \o KV(KeyA, Val1) \o <<NL>>
\* "a 1", a null byte, a line break: a null byte early in the file
FileNul == KV(KeyA, Val1) \o <<NUL, NL>>
\* "b 1", a line break, "a" up to byte 99, pos: a null byte at byte pos
FileNulAt(pos) ==
    KV(KeyB, Val1) \o <<NL>> \o [i \in 1..(pos - 5) |-> "a"] \o <<NUL>>
\* the null byte as the last byte of the header, and as the first after it
FileNulInHeader == FileNulAt(HeaderLen)
FileNulAfterHeader == FileNulAt(HeaderLen + 1)

\* "a<TAB>1 / b 1": a tab between key and value
FileTab == JoinNL(<<KeyA \o <<TAB>> \o Val1, KV(KeyB, Val1)>>)

LoadFiles == {FileOther, FileTab, FileBinary, FileNul, FileNulInHeader,
              FileNulAfterHeader, Unreadable, Missing}

InitLoad ==
    /\ disk \in InitFiles
    /\ config_path = CfgPath
    /\ original_content = LoadOp(disk).original_content
    /\ raw_lines = LoadOp(disk).raw_lines
    /\ config_data = LoadOp(disk).config_data
    /\ running = FALSE
    /\ modified_settings = {}
    /\ backups = << >>
    /\ taken = {}
    /\ now = 0
    /\ last = Outcome("load", TRUE, "loaded", << >>, NullName)

NextLoad ==
    \/ \E content \in LoadFiles : ExternalEdit(content)
    \/ Reload
    \/ \E key \in SetKeys, value \in SetValues : Set(key, value)

SpecLoad == InitLoad /\ [][NextLoad]_vars

-----------------------------------------------------------------------------
(* BackupManager used on its own, on a config file other programs change.  *)

InitStore ==
    /\ disk \in StoreFiles
    /\ config_path = CfgPath
    /\ original_content = << >>
    /\ raw_lines = << >>
    /\ config_data = << >>
    /\ running = FALSE
    /\ modified_settings = {}
    /\ backups = << >>
    /\ taken = {}
    /\ now = 0
    /\ last = Outcome("init", TRUE, "", << >>, NullName)

\* create_backup(config_path, description)
CreateBackup(description) ==
    /\ now < MaxClock
    /\ \E fault \in Faults :
         LET b == CreateBackupOp(backups, config_path, disk, description, now,
                                 fault)
         IN  /\ backups' = b.store
             /\ taken' = IF b.ok THEN taken \cup {<<b.name, disk>>} ELSE taken
             /\ now' = IF disk = Missing THEN now ELSE now + 1
             /\ last' = Outcome("backup", b.ok, "", << >>, b.name)
    /\ UNCHANGED <<disk, config_path, config_data, original_content,
                   raw_lines, running, modified_settings>>

\* restore_backup(backup_name, config_path)
RestoreBackup(name) ==
    /\ now < MaxClock
    /\ \E cfault \in Faults, copyfails \in BOOLEAN :
         LET r == RestoreBackupOp(backups, name, config_path, disk, now,
                                  cfault, copyfails)
             called == r.why \in {"failed", "restored"} /\ disk # Missing
         IN  /\ backups' = r.store
             /\ taken' = IF called /\ cfault = "none"
                         THEN taken \cup
                              {<<BackupName(now, BeforeRestore(name)), disk>>}
                         ELSE taken
             /\ now' = IF called THEN now + 1 ELSE now
             /\ disk' = r.disk
             /\ last' = Outcome("restore", r.ok, r.why, << >>, name)
    /\ UNCHANGED <<config_path, config_data, original_content, raw_lines,
                   running, modified_settings>>

\* delete_backup(backup_name)
DeleteBackup(name) ==
    /\ LET r == DeleteBackupOp(backups, name)
       IN  /\ backups' = r.store
           /\ taken' = Kept(taken, r.store)
           /\ last' = Outcome("delete", r.ok, "", << >>, name)
    /\ UNCHANGED <<disk, config_path, config_data, original_content,
                   raw_lines, running, modified_settings, now>>

\* a backup of an earlier layout is found in the backup directory, named
\* backup_<timestamp>: a directory with the copy and no metadata.json, or
\* the copy as a plain file
LegacyName == BackupName(0, Desc(""))
LegacyLayouts == {NoMeta, FlatMeta}

LegacyBackup(meta) ==
    /\ LegacyName \notin DOMAIN backups
    /\ backups' = Put(backups, LegacyName, [file |-> FileOther, meta |-> meta])
    /\ last' = Outcome("legacy", TRUE, meta.state, << >>, LegacyName)
    /\ UNCHANGED <<disk, config_path, config_data, original_content,
                   raw_lines, running, modified_settings, now, taken>>

\* cleanup_old_backups(keep_count)
CleanupOldBackups(keep_count) ==
    /\ backups' = CleanupOp(backups, keep_count)
    /\ taken' = Kept(taken, CleanupOp(backups, keep_count))
    /\ last' = Outcome("cleanup", TRUE, "", << >>, NullName)
    /\ UNCHANGED <<disk, config_path, config_data, original_content,
                   raw_lines, running, modified_settings, now>>

NextStore ==
    \/ \E description \in ManualDescs : CreateBackup(description)
    \/ \E name \in DOMAIN backups \cup UnknownNames : RestoreBackup(name)
    \/ \E name \in DOMAIN backups \cup UnknownNames : DeleteBackup(name)
    \/ \E keep_count \in KeepCounts : CleanupOldBackups(keep_count)
    \/ \E content \in StoreFiles : ExternalEdit(content)
    \/ \E meta \in LegacyLayouts : LegacyBackup(meta)
    \/ Tick

SpecStore == InitStore /\ [][NextStore]_vars

-----------------------------------------------------------------------------
(* MainWindow: the edit session.                                           *)

\* MainWindow.__init__: ConfigManager() finds a text config and loads it, or
\* finds none; create_backup(config_path, "app_start") when a path is set
Init ==
    /\ running \in BOOLEAN
    /\ modified_settings = {}
    /\ \/ /\ config_path = CfgPath
          /\ disk \in InitFiles
          /\ original_content = LoadOp(disk).original_content
          /\ raw_lines = LoadOp(disk).raw_lines
          /\ config_data = LoadOp(disk).config_data
          /\ LET b == CreateBackupOp(<< >>, CfgPath, disk, Desc("app_start"),
                                     0, "none")
             IN  /\ backups = b.store
                 /\ taken = {<<b.name, disk>>}
          /\ now = 1
          /\ last = Outcome("load", TRUE, "loaded", << >>, NullName)
       \/ /\ config_path = NoPath
          /\ disk = Missing
          /\ original_content = << >>
          /\ raw_lines = << >>
          /\ config_data = << >>
          /\ backups = << >>
          /\ taken = {}
          /\ now = 0
          /\ last = Outcome("load", FALSE, "no_config", << >>, NullName)

\* Every handler of the window takes time: the clock is one tick further
\* when it returns, and no handler runs once the clock has stopped.

\* _on_setting_changed as it would be if it rewrote the stored lines at
\* once: the variant the frame of set() is tested against
OnSettingChanged_Eager(key, value) ==
    /\ now < MaxClock
    /\ now' = now + 1
    /\ config_data' = DictSet(config_data, key, value)
    /\ raw_lines' = NewLines(raw_lines, config_data')
    /\ modified_settings' = modified_settings \cup {key}
    /\ last' = Outcome("set", TRUE, "", key, NullName)
    /\ UNCHANGED <<disk, config_path, original_content, running,
                   backups, taken>>

\* _on_setting_changed(key, value)
OnSettingChanged(key, value) ==
    /\ now < MaxClock
    /\ now' = now + 1
    /\ config_data' = DictSet(config_data, key, value)
    /\ modified_settings' = modified_settings \cup {key}
    /\ last' = Outcome("set", TRUE, "", key, NullName)
    /\ UNCHANGED <<disk, config_path, original_content, raw_lines, running,
                   backups, taken>>

\* _apply_preset as it would be if it compared with the saved file and
\* marked only the keys whose value differs: the variant the pending set of
\* a preset is tested against
ApplyPreset_Diffed(id) ==
    /\ now < MaxClock
    /\ now' = now + 1
    /\ \/ /\ running
          /\ last' = Outcome("preset", FALSE, "game_running", << >>, NullName)
          /\ UNCHANGED <<config_data, modified_settings>>
       \/ /\ ~running
          /\ LET r == ApplyPresetOp(config_data, id)
                 saved == ParseConfig(original_content)
             IN  /\ config_data' = r.config_data
                 /\ modified_settings' =
                       IF r.ok
                       THEN modified_settings \cup
                            {k \in DictKeys(PresetSettings(id)) :
                                DictGet(r.config_data, k, Missing)
                                   # DictGet(saved, k, Missing)}
                       ELSE modified_settings
                 /\ last' = Outcome("preset", r.ok, id, << >>, NullName)
    /\ UNCHANGED <<disk, config_path, original_content, raw_lines, running,
                   backups, taken>>

\* _apply_preset(preset_key), the user answering Yes
ApplyPreset(id) ==
    /\ now < MaxClock
    /\ now' = now + 1
    /\ \/ /\ running
          /\ last' = Outcome("preset", FALSE, "game_running", << >>, NullName)
          /\ UNCHANGED <<config_data, modified_settings>>
       \/ /\ ~running
          /\ LET r == ApplyPresetOp(config_data, id)
             IN  /\ config_data' = r.config_data
                 /\ modified_settings' =
                       IF r.ok
                       THEN modified_settings \cup DictKeys(PresetSettings(id))
                       ELSE modified_settings
                 /\ last' = Outcome("preset", r.ok, id, << >>, NullName)
    /\ UNCHANGED <<disk, config_path, original_content, raw_lines, running,
                   backups, taken>>

\* _save_config().  The game may start between the window's check and the
\* one inside ConfigManager.save(): running' is what the second check sees.
SaveConfig ==
    /\ now < MaxClock
    /\ now' = now + 1
    /\ \/ /\ config_path = NoPath
          /\ last' = Outcome("save", FALSE, "no_config", << >>, NullName)
          /\ UNCHANGED <<disk, original_content, raw_lines, running,
                         modified_settings, backups, taken>>
       \/ /\ config_path # NoPath
          /\ running
          /\ last' = Outcome("save", FALSE, "game_running", << >>, NullName)
          /\ UNCHANGED <<disk, original_content, raw_lines, running,
                         modified_settings, backups, taken>>
       \/ /\ config_path # NoPath
          /\ ~running
          /\ \E fault \in UiFaults, second \in BOOLEAN, wfault \in WriteFaults :
               LET b == CreateBackupOp(backups, config_path, disk,
                                       Desc("before_save"), now, fault)
                   s == SaveOp(config_path, raw_lines, config_data,
                               original_content, disk, second, wfault)
               IN  /\ backups' = b.store
                   /\ taken' = IF b.ok THEN taken \cup {<<b.name, disk>>}
                               ELSE taken
                   /\ running' = second
                   /\ disk' = s.disk
                   /\ original_content' = s.original_content
                   /\ raw_lines' = s.raw_lines
                   /\ modified_settings' =
                          IF s.ok THEN {} ELSE modified_settings
                   /\ last' = Outcome("save", s.ok, s.why, << >>, b.name)
    /\ UNCHANGED <<config_path, config_data>>

\* _create_backup()
UiCreateBackup ==
    /\ now < MaxClock
    /\ now' = now + 1
    /\ \/ /\ config_path = NoPath
          /\ last' = Outcome("backup", FALSE, "no_config", << >>, NullName)
          /\ UNCHANGED <<backups, taken>>
       \/ /\ config_path # NoPath
          /\ \E fault \in UiFaults :
               LET b == CreateBackupOp(backups, config_path, disk,
                                       Desc("manual"), now, fault)
               IN  /\ backups' = b.store
                   /\ taken' = IF b.ok THEN taken \cup {<<b.name, disk>>}
                               ELSE taken
                   /\ last' = Outcome("backup", b.ok, "", << >>, b.name)
    /\ UNCHANGED <<disk, config_path, config_data, original_content,
                   raw_lines, running, modified_settings>>

\* _restore_backup(), the user answering Yes, with the backup selected in
\* the list (NullName: one that is gone from the directory); a restored
\* file is reloaded
UiRestoreBackup(name) ==
    /\ now < MaxClock
    /\ now' = now + 1
    /\ \E cfault \in UiFaults, copyfails \in BOOLEAN :
         LET r == RestoreBackupOp(backups, name, config_path, disk, now,
                                  cfault, copyfails)
             called == r.why \in {"failed", "restored"} /\ disk # Missing
                       /\ config_path # NoPath
             l == LoadOp(r.disk)
         IN  /\ backups' = r.store
             /\ taken' = IF called /\ cfault = "none"
                         THEN taken \cup
                              {<<BackupName(now, BeforeRestore(name)), disk>>}
                         ELSE taken
             /\ disk' = r.disk
             /\ original_content' =
                    IF r.ok THEN l.original_content ELSE original_content
             /\ raw_lines' = IF r.ok THEN l.raw_lines ELSE raw_lines
             /\ config_data' = IF r.ok THEN l.config_data ELSE config_data
             /\ modified_settings' = IF r.ok THEN {} ELSE modified_settings
             /\ last' = Outcome("restore", r.ok, r.why, << >>, name)
    /\ UNCHANGED <<config_path, running>>

\* _delete_backup(), the user answering Yes
UiDeleteBackup(name) ==
    /\ now < MaxClock
    /\ now' = now + 1
    /\ LET r == DeleteBackupOp(backups, name)
       IN  /\ backups' = r.store
           /\ taken' = Kept(taken, r.store)
           /\ last' = Outcome("delete", r.ok, "", << >>, name)
    /\ UNCHANGED <<disk, config_path, config_data, original_content,
                   raw_lines, running, modified_settings>>

Next ==
    \/ \E key \in SetKeys, value \in SetValues : OnSettingChanged(key, value)
    \/ \E id \in PresetIds : ApplyPreset(id)
    \/ SaveConfig
    \/ UiCreateBackup
    \/ \E name \in DOMAIN backups \cup {NullName} : UiRestoreBackup(name)
    \/ \E name \in DOMAIN backups \cup {NullName} : UiDeleteBackup(name)
    \/ Tick
    \/ ToggleGame
    \/ \E content \in ExtFiles : ExternalEdit(content)

Spec == Init /\ [][Next]_vars

-----------------------------------------------------------------------------
(* Properties.                                                             *)

\* a text with its last line ended: "up to line-ending normalization"
Norm(text) ==
    IF text # << >> /\ text[Len(text)] = NL THEN text ELSE text \o <<NL>>

\* the keys that occur in the file: the first word of every non-blank line
FileKeys(lines) ==
    {LineKey(lines[i]) : i \in {j \in 1..Len(lines) : Strip(lines[j]) # << >>}}

\* a line of the form key, space, value: the lines the parser enters
IsPairLine(line) == ParseLine(<< >>, line) # << >>

\* the line a key owns: the first line that gives it a value
OwnLine(lines, key) ==
    CHOOSE i \in 1..Len(lines) :
        /\ IsPairLine(lines[i]) /\ LineKey(lines[i]) = key
        /\ \A j \in 1..(i - 1) :
              ~IsPairLine(lines[j]) \/ LineKey(lines[j]) # key

NoValue == <<"<none>">>

\* C1 (SpecDoc): round-trip identity.  Directly after a load, and before any
\* set(), the text save() would write equals the loaded text, up to the
\* line break after the last line.
C1_RoundTrip ==
    (last.op = "load" /\ last.ok)
        => Serialize(raw_lines, config_data) = Norm(original_content)

\* C2 (SpecDoc): selective rewrite.  A set(K, V) right after a load, for a
\* key K that the file gives a value, changes in the serialization only the line
\* K owns, which becomes "K V"; every other line is emitted as it was, in the
\* original order.
C2_SelectiveRewrite ==
    [][\A key \in SetKeys, value \in SetValues :
         (last.op = "load" /\ last.ok /\ DictHas(config_data, key)
          /\ Set(key, value))
            => LET out == NewLines(raw_lines', config_data')
                   own == OwnLine(raw_lines, key)
               IN  /\ Len(out) = Len(raw_lines)
                   /\ out[own] = KV(key, value)
                   /\ \A i \in 1..Len(raw_lines) \ {own} :
                          out[i] = raw_lines[i]]_vars

\* the pairs config_data holds after those of the loaded or saved file
AddedPairs ==
    SubSeq(config_data, Len(ParseConfig(original_content)) + 1,
           Len(config_data))

\* set() was called for keys that do not occur in the file, and for no other
OnlyNewKeysSet ==
    /\ Len(config_data) > Len(ParseConfig(original_content))
    /\ SubSeq(config_data, 1, Len(ParseConfig(original_content)))
          = ParseConfig(original_content)
    /\ \A i \in 1..Len(AddedPairs) :
          AddedPairs[i][1] \notin FileKeys(raw_lines)

\* C3 (SpecDoc): new key append.  When set() was called only for keys that
\* do not occur in the file, the serialization is the original lines
\* followed by one line "key value" per new key, in insertion order.
C3_NewKeyAppend ==
    OnlyNewKeysSet
        => NewLines(raw_lines, config_data)
              = raw_lines \o [i \in 1..Len(AddedPairs) |->
                                 KV(AddedPairs[i][1], AddedPairs[i][2])]

\* C4 (Spec): guarded save refusal.  A save attempt during which the
\* run-state guard reports the game running, at the window's check or at
\* the one inside ConfigManager.save(), reports failure and leaves the file
\* on disk, the mapping, the raw lines and the pending set as they were; and
\* ConfigManager.save() itself, answered "running", fails and changes
\* nothing.
C4_GuardedSaveRefused ==
    [][/\ (SaveConfig /\ config_path # NoPath /\ (running \/ running'))
            => /\ disk' = disk
               /\ config_data' = config_data
               /\ raw_lines' = raw_lines
               /\ original_content' = original_content
               /\ modified_settings' = modified_settings
               /\ last'.op = "save" /\ ~last'.ok
               /\ last'.why = "game_running"
       /\ \A wfault \in WriteFaults :
            LET s == SaveOp(config_path, raw_lines, config_data,
                            original_content, disk, TRUE, wfault)
            IN  /\ ~s.ok
                /\ s.disk = disk
                /\ s.raw_lines = raw_lines
                /\ s.original_content = original_content]_vars

\* C4 witness: a save was refused for the running game while changes were
\* pending and the file, if written, would have changed.
C4_Witness ==
    /\ last.op = "save" /\ ~last.ok /\ last.why = "game_running"
    /\ running
    /\ modified_settings # {}
    /\ disk # Missing
    /\ Serialize(raw_lines, config_data) # disk

\* C5 (SpecStore): backup/restore round trip.  After a successful restore of
\* backup B the file holds what it held at the moment B was handed out by
\* create_backup.
C5_RestoreRoundTrip ==
    (last.op = "restore" /\ last.ok)
        => \A p \in taken : p[1] = last.name => disk = p[2]

\* C6 (SpecStore): restore safety net.  A successful restore over an
\* existing target file has first created a new backup holding the content
\* the target had just before the overwrite.
C6_RestoreSafetyNet ==
    [][\A name \in DOMAIN backups :
         (RestoreBackup(name) /\ last'.ok /\ disk # Missing)
            => \E b \in DOMAIN backups' \ DOMAIN backups :
                  backups'[b].file = disk]_vars

\* C7 (SpecStore): identifier uniqueness.  A successful create_backup
\* returns a name no stored backup has, and the store grows by one.
C7_UniqueIdentifier ==
    [][\A description \in ManualDescs :
         (CreateBackup(description) /\ last'.ok)
            => /\ last'.name \notin DOMAIN backups
               /\ Cardinality(DOMAIN backups')
                     = Cardinality(DOMAIN backups) + 1]_vars

\* a backup create_backup has completed: the copy and its metadata
Complete(entry) == entry.file # Missing /\ entry.meta.state = "ok"

\* C8 (SpecStore): backup immutability.  No step changes the file or the
\* metadata of a completed backup that stays in the store, and a backup
\* leaves the store through delete or cleanup only.
C8_BackupImmutable ==
    [][/\ \A n \in DOMAIN backups \cap DOMAIN backups' :
             Complete(backups[n]) => backups'[n] = backups[n]
       /\ (DOMAIN backups \ DOMAIN backups' # {})
             => last'.op \in {"delete", "cleanup"}]_vars

\* C9 (SpecDoc): has_changes() is true exactly when the text save() would
\* write differs from the last loaded or saved text, and is false directly
\* after a load or a successful save.
C9_HasChangesExact ==
    /\ HasChanges(raw_lines, config_data)
          <=> (Serialize(raw_lines, config_data) # Norm(original_content))
    /\ (last.op \in {"load", "save"} /\ last.ok)
          => ~HasChanges(raw_lines, config_data)

\* C10 (Spec): pending-set state machine.  Directly after a setValue the key
\* is in the pending set exactly when its value differs from the value of
\* the last loaded or saved file.
C10_PendingIffDiffers ==
    (last.op = "set")
        => (last.key \in modified_settings
              <=> DictGet(config_data, last.key, NoValue)
                     # DictGet(ParseConfig(original_content), last.key,
                               NoValue))

\* C11 (Spec): session save is all-or-nothing.  A successful _save_config
\* writes the full serialized document and empties the pending set; a failed
\* one (no config path, the game running, a write error) leaves the pending
\* set, the mapping, the raw lines, the original content and the file on
\* disk as they were.
C11_SaveAllOrNothing ==
    [][SaveConfig
         => IF last'.ok
            THEN /\ disk' = Serialize(raw_lines, config_data)
                 /\ modified_settings' = {}
            ELSE /\ modified_settings' = modified_settings
                 /\ config_data' = config_data
                 /\ raw_lines' = raw_lines
                 /\ original_content' = original_content
                 /\ disk' = disk]_vars

\* C12 (Spec): backup before destructive write.  Whenever a successful
\* _save_config has changed the config file, a backup holding the file's
\* content as it was just before the save is in the store afterwards.
C12_BackupBeforeWrite ==
    [][(SaveConfig /\ last'.ok /\ disk # Missing /\ disk' # disk)
         => \E b \in DOMAIN backups' : backups'[b].file = disk]_vars

\* the value the last loaded or saved file gives a key
SavedValue(key) == DictGet(ParseConfig(original_content), key, NoValue)

\* C13 (Spec): a successful _apply_preset puts every key of the preset into
\* the pending set, the keys whose preset value equals the saved value
\* included, and takes no key out of it.
C13_PresetKeysPending ==
    [][\A id \in PresetIds :
         (ApplyPreset(id) /\ last'.ok)
            => /\ DictKeys(PresetSettings(id)) \subseteq modified_settings'
               /\ modified_settings \subseteq modified_settings']_vars

\* C13 witness: a preset was applied, and a key of it is pending although the
\* preset gave it the value the saved file holds.
C13_Witness ==
    /\ last.op = "preset" /\ last.ok
    /\ \E k \in DictKeys(PresetSettings(last.why)) :
          /\ k \in modified_settings
          /\ DictGet(config_data, k, NoValue) = SavedValue(k)

\* the ids apply_preset is called with: the presets and one that is none
PresetInputs == PresetIds \cup {"nosuch"}

\* C14 (Spec): preset idempotence.  In every state of the session, and for
\* every preset, applying the preset to the document twice in succession
\* gives the mapping (with its insertion order) and the serialized text that
\* applying it once gives; and an _apply_preset that directly follows a
\* successful one of the same preset leaves the mapping as it is.
C14_PresetIdempotent ==
    /\ \A id \in PresetIds :
         LET once  == ApplyPresetOp(config_data, id)
             twice == ApplyPresetOp(once.config_data, id)
         IN  /\ twice.ok
             /\ twice.config_data = once.config_data
             /\ Serialize(raw_lines, twice.config_data)
                   = Serialize(raw_lines, once.config_data)
    /\ (last.op = "preset" /\ last.ok)
          => ApplyPresetOp(config_data, last.why).config_data = config_data

\* C14 witness: a preset was applied and it changed the loaded document and
\* added a key to it.
C14_Witness ==
    /\ last.op = "preset" /\ last.ok
    /\ Len(config_data) > Len(ParseConfig(original_content))
    /\ \E k \in DictKeys(config_data) :
          SavedValue(k) # NoValue /\ DictGet(config_data, k, NoValue) # SavedValue(k)

\* C15 (Spec): preset apply contract.  In every state of the session,
\* apply_preset with an id that is no preset fails and leaves the mapping
\* unchanged; with a preset it succeeds and reports the number of entries,
\* every key of the preset then maps to the preset's value, and every other
\* key maps to what it did.  A successful _apply_preset has left the mapping
\* holding the preset's values.
C15_PresetContract ==
    /\ \A id \in PresetInputs :
         LET r == ApplyPresetOp(config_data, id)
             settings == IF id \in PresetIds THEN PresetSettings(id) ELSE << >>
         IN  IF id \notin PresetIds
             THEN ~r.ok /\ r.config_data = config_data
             ELSE /\ r.ok
                  /\ r.count = Cardinality(DictKeys(settings))
                  /\ \A k \in DictKeys(settings) :
                        DictGet(r.config_data, k, NoValue)
                           = DictGet(settings, k, NoValue)
                  /\ \A k \in DictKeys(config_data) \ DictKeys(settings) :
                        DictGet(r.config_data, k, NoValue)
                           = DictGet(config_data, k, NoValue)
                  /\ DictKeys(r.config_data)
                        = DictKeys(config_data) \cup DictKeys(settings)
    /\ (last.op = "preset" /\ last.ok)
          => \A k \in DictKeys(PresetSettings(last.why)) :
                DictGet(config_data, k, NoValue)
                   = DictGet(PresetSettings(last.why), k, NoValue)

\* C15 witness: a preset that does not name every key of the document was
\* applied and changed a value; the key it does not name is still there.
C15_Witness ==
    /\ last.op = "preset" /\ last.ok
    /\ DictKeys(config_data) \ DictKeys(PresetSettings(last.why)) # {}
    /\ \E k \in DictKeys(PresetSettings(last.why)) :
          SavedValue(k) # DictGet(config_data, k, NoValue)

\* the binary variant: the signature first, or a null byte in the header
IsBinary(content) ==
    /\ content \notin {Missing, Unreadable}
    /\ \/ /\ Len(content) >= Len(Signature)
          /\ SubSeq(content, 1, Len(Signature)) = Signature
       \/ \E i \in 1..Len(content) : i <= HeaderLen /\ content[i] = NUL

\* C16 (SpecLoad): binary variant rejection.  load() of a file that starts
\* with the signature, or has a null byte among its first 100 bytes, fails
\* with the format error, which no other content of a readable file gives,
\* and leaves the mapping, the raw lines, the original content and the path
\* as they were.
C16_BinaryRejected ==
    [][(Reload /\ IsBinary(disk))
         => /\ last'.op = "load" /\ ~last'.ok
            /\ last'.why = "ValueError"
            /\ last'.why \notin {LoadWhy(FileOther, rf) : rf \in ReadFaults}
            /\ last'.why # LoadWhy(Missing, "none")
            /\ config_data' = config_data
            /\ raw_lines' = raw_lines
            /\ original_content' = original_content
            /\ config_path' = config_path]_vars

\* C16 witness: a load was refused for a file whose only mark of the binary
\* variant is a null byte at byte 100, while settings were loaded and set.
C16_Witness ==
    /\ last.op = "load" /\ ~last.ok /\ last.why = "ValueError"
    /\ disk = FileNulInHeader
    /\ config_data # ParseConfig(original_content)
    /\ config_data # << >>

\* C17 (SpecLoad): load error taxonomy.  A load that fails ends with a
\* result, not with an exception leaving load(); and the load of a file that
\* exists and cannot be read ends differently from the load of a binary
\* file.
C17_LoadErrorTaxonomy ==
    (last.op = "load" /\ ~last.ok)
        => /\ last.why \notin LoadExceptions
           /\ (disk = Unreadable)
                 => last.why \notin {LoadWhy(FileBinary, rf) : rf \in ReadFaults}

\* C18 (Spec): set(), update() and the application of a preset change the
\* mapping only.  A step of _on_setting_changed or _apply_preset leaves the
\* raw lines, the original content and the file on disk as they were, and
\* the raw lines and the original content change in no step but a
\* successful save and a load.
C18_SetChangesMappingOnly ==
    [][/\ ((\E key \in SetKeys, value \in SetValues :
               OnSettingChanged(key, value))
           \/ (\E id \in PresetIds : ApplyPreset(id)))
          => /\ raw_lines' = raw_lines
             /\ original_content' = original_content
             /\ disk' = disk
       /\ (raw_lines' # raw_lines \/ original_content' # original_content)
          => /\ last'.ok
             /\ last'.op \in {"save", "restore"}]_vars

\* C18 witness: a preset was applied after a setting was changed; the
\* mapping differs from the loaded one and the file is the loaded text.
C18_Witness ==
    /\ last.op = "preset" /\ last.ok
    /\ modified_settings \ DictKeys(PresetSettings(last.why)) # {}
    /\ config_data # ParseConfig(original_content)
    /\ disk = original_content
    /\ raw_lines = SplitLines(disk)
    /\ Serialize(raw_lines, config_data) # disk

\* C19 (SpecStore): the failure cases of the backup store leave the state as
\* it was.  create_backup of a file that does not exist fails and adds no
\* backup; restore_backup of a name that is no backup, or of a backup with
\* no config file in it, fails, leaves the target file as it was and
\* creates no backup; delete_backup of a name that is no backup fails and
\* removes nothing.
C19_FailuresLeaveState ==
    [][/\ \A description \in ManualDescs :
            (CreateBackup(description) /\ disk = Missing)
               => ~last'.ok /\ backups' = backups
       /\ \A name \in DOMAIN backups \cup UnknownNames :
            /\ (RestoreBackup(name)
                /\ (name \notin DOMAIN backups \/ backups[name].file = Missing))
                  => ~last'.ok /\ disk' = disk /\ backups' = backups
            /\ (DeleteBackup(name) /\ name \notin DOMAIN backups)
                  => ~last'.ok /\ backups' = backups]_vars

\* the moment create_backup wrote a backup: 'datetime' of its metadata
CreatedAt(store, name) == store[name].meta.datetime

\* C20 (SpecStore): get_backups() lists the backups newest first.  Of two
\* listed backups with complete metadata, the one created later comes
\* earlier in the list, also when both were created in the same second and
\* when their descriptions differ.
C20_ListNewestFirst ==
    LET listed == GetBackups(backups)
    IN  \A i, j \in 1..Len(listed) :
           (/\ i < j
            /\ Complete(backups[listed[i]])
            /\ Complete(backups[listed[j]]))
              => CreatedAt(backups, listed[i]) > CreatedAt(backups, listed[j])

\* no metadata.json in the store is unreadable
NoCorruptMeta(store) ==
    \A n \in DOMAIN store : store[n].meta.state # "corrupt"

\* C21 (SpecStore): backward-compatible listing.  When no metadata file is
\* damaged, get_backups() has exactly one entry for every item of the backup
\* directory that holds a copy of the config file, in each layout: a
\* directory with metadata.json, a directory without, a plain file; and the
\* entry of a backup without metadata.json carries a timestamp taken from
\* its name.
C21_ListsEveryLayout ==
    NoCorruptMeta(backups)
        => LET listed == GetBackups(backups)
           IN  \A n \in DOMAIN backups :
                  (backups[n].file # Missing)
                     => /\ Cardinality({i \in 1..Len(listed) : listed[i] = n}) = 1
                        /\ (backups[n].meta.state # "ok")
                              => EntryMetadata(backups, n).timestamp
                                    = DateOf(n.ts)

\* the keep_count backups of a store created last
Newest(store, keep_count) ==
    {n \in DOMAIN store :
        Cardinality({m \in DOMAIN store :
                        CreatedAt(store, m) > CreatedAt(store, n)})
           < keep_count}

\* C22 (SpecStore): cleanup_old_backups(keep_count), on a store of backups
\* with complete metadata, changes nothing when the store holds at most
\* keep_count backups, and otherwise leaves exactly the keep_count backups
\* created last, each as it was.
C22_CleanupKeepsNewest ==
    [][\A keep_count \in KeepCounts :
         (/\ CleanupOldBackups(keep_count)
          /\ \A n \in DOMAIN backups : Complete(backups[n]))
            => IF Cardinality(DOMAIN backups) <= keep_count
               THEN backups' = backups
               ELSE /\ DOMAIN backups' = Newest(backups, keep_count)
                    /\ \A n \in DOMAIN backups' : backups'[n] = backups[n]]_vars

\* C30 (SpecStore): listing is robust to one bad backup.  get_backups() has
\* an entry for every backup directory, also when the metadata.json of one
\* of them cannot be read.
C30_ListingRobust ==
    LET listed == GetBackups(backups)
    IN  \A n \in DOMAIN backups :
           ~IsFlat(backups[n]) => \E i \in 1..Len(listed) : listed[i] = n


(***************************************************************************)
(* settings_database: the registry of documented settings and its search.  *)
(* SETTINGS_DATABASE is cut to three settings over short texts: the first  *)
(* stands for GstRender.VSyncMode (name "V-Sync", subcategory "Frame Sync",*)
(* aliases "vsync" and "vertical sync"), the second has no blank in any    *)
(* field, the third shares the category of the first.                      *)
(***************************************************************************)
Setting(key, name, category, subcategory, search_aliases) ==
    [key |-> key, name |-> name, category |-> category,
     subcategory |-> subcategory, search_aliases |-> search_aliases]

VSyncMode ==
    Setting(<<"G", "v">>, <<"V", "-", "s">>, <<"P">>, <<"F", " ", "s">>,
            << <<"v", "s">>, <<"v", " ", "s">> >>)

FieldOfView ==
    Setting(<<"G", "f">>, <<"F", "o", "v">>, <<"C">>, <<"C">>, << <<"f", "v">> >>)

FrameLimit ==
    Setting(<<"G", "l">>, <<"F", " ", "l">>, <<"P">>, <<"F", "s">>, << >>)

SETTINGS_DATABASE == <<VSyncMode, FieldOfView, FrameLimit>>

\* str.lower() on the characters of the model.
LowerChar(c) ==
    CASE c = "V" -> "v"
      [] c = "G" -> "g"
      [] c = "P" -> "p"
      [] c = "F" -> "f"
      [] c = "C" -> "c"
      [] OTHER -> c

Lower(s) == [i \in 1..Len(s) |-> LowerChar(s[i])]

\* Python's 'query in text' on strings: query is a substring of text.
Contains(text, query) ==
    \E i \in 0..(Len(text) - Len(query)) :
        \A j \in 1..Len(query) : text[i + j] = query[j]

\* One pass of the loop body of search_settings for an already normalised
\* query, without the search in the key.
Matches_NoKey(query, info) ==
    \/ Contains(Lower(info.name), query)
    \/ Contains(Lower(info.category), query)
    \/ Contains(Lower(info.subcategory), query)
    \/ \E a \in 1..Len(info.search_aliases) :
           Contains(Lower(info.search_aliases[a]), query)

\* One pass of the loop body of search_settings for the normalised query:
\* name, category, subcategory, the aliases, then the key itself.
Matches(query, info) ==
    IF Contains(Lower(info.name), query) THEN TRUE
    ELSE IF Contains(Lower(info.category), query) THEN TRUE
    ELSE IF Contains(Lower(info.subcategory), query) THEN TRUE
    ELSE IF \E a \in 1..Len(info.search_aliases) :
                Contains(Lower(info.search_aliases[a]), query) THEN TRUE
    ELSE Contains(Lower(info.key), query)

RECURSIVE SearchFrom(_, _)
SearchFrom(query, i) ==
    IF i > Len(SETTINGS_DATABASE) THEN << >>
    ELSE IF Matches(query, SETTINGS_DATABASE[i])
         THEN <<SETTINGS_DATABASE[i]>> \o SearchFrom(query, i + 1)
         ELSE SearchFrom(query, i + 1)

\* search_settings(query): query.lower().strip(), then the settings that
\* match, in the order of the registry.
search_settings(query) == SearchFrom(Strip(Lower(query)), 1)

MaxQuery == 3
QueryChars == {"v", "s", "V", "G", SP, "z"}
Queries == UNION {[1..n -> QueryChars] : n \in 0..MaxQuery}

InitRegistry ==
    /\ disk = FilePlain
    /\ config_path = CfgPath
    /\ original_content = LoadOp(disk).original_content
    /\ raw_lines = LoadOp(disk).raw_lines
    /\ config_data = LoadOp(disk).config_data
    /\ running = FALSE
    /\ modified_settings = {}
    /\ backups = << >>
    /\ taken = {}
    /\ now = 0
    /\ last = Outcome("load", TRUE, "loaded", << >>, NullName)

SearchSettings(query) ==
    /\ last' = [op |-> "search_settings", query |-> query,
                results |-> search_settings(query)]
    /\ UNCHANGED <<disk, config_path, config_data, original_content,
                   raw_lines, running, modified_settings, backups, now, taken>>

NextRegistry == \E query \in Queries : SearchSettings(query)

SpecRegistry == InitRegistry /\ [][NextRegistry]_vars

(***************************************************************************)
(* utils.format_file_size.  Dividing by 1024.0 is exact in binary floating *)
(* point for the sizes of the model, so the value formatted is the         *)
(* rational size_bytes / 1024^i, and "%.1f" rounds it to tenths, ties to   *)
(* the even digit.                                                         *)
(***************************************************************************)
Kilo == 1024

size_names == << <<"B">>, <<"K", "B">>, <<"M", "B">>, <<"G", "B">>, <<"T", "B">> >>

RECURSIVE KiloPow(_)
KiloPow(i) == IF i = 0 THEN 1 ELSE Kilo * KiloPow(i - 1)

\* The while loop: the number of divisions by 1024.
RECURSIVE UnitIndex(_, _)
UnitIndex(size_bytes, i) ==
    IF (size_bytes \div KiloPow(i)) >= Kilo /\ i < Len(size_names) - 1
    THEN UnitIndex(size_bytes, i + 1)
    ELSE i

DigitChar(d) == <<"0", "1", "2", "3", "4", "5", "6", "7", "8", "9">>[d + 1]

RECURSIVE Digits(_)
Digits(n) == IF n < 10 THEN <<DigitChar(n)>>
             ELSE Digits(n \div 10) \o <<DigitChar(n % 10)>>

\* size_bytes / d in tenths, rounded as "%.1f" rounds.
Tenths(size_bytes, d) ==
    LET whole == size_bytes \div d
        rem   == size_bytes % d
        t     == (rem * 10) \div d
        r     == (rem * 10) % d
        up    == (2 * r > d) \/ (2 * r = d /\ t % 2 = 1)
    IN  whole * 10 + t + (IF up THEN 1 ELSE 0)

format_file_size(size_bytes) ==
    IF size_bytes = 0 THEN <<"0", " ", "B">>
    ELSE LET i == UnitIndex(size_bytes, 0)
             t == Tenths(size_bytes, KiloPow(i))
         IN  Digits(t \div 10) \o <<".", DigitChar(t % 10)>>
                 \o <<" ">> \o size_names[i + 1]

\* Byte counts: whole and fractional multiples of the units up to 1 GB.
Sizes ==
    {0, 1, 1023, Kilo * Kilo - 1, Kilo * Kilo * Kilo}
        \cup {m * KiloPow(e) + f * (KiloPow(e) \div 16) :
                 e \in 1..2, m \in {1, 2, 5, 1023}, f \in 0..15}

FormatFileSize(size_bytes) ==
    /\ last' = [op |-> "format_file_size", size_bytes |-> size_bytes,
                result |-> format_file_size(size_bytes)]
    /\ UNCHANGED <<disk, config_path, config_data, original_content,
                   raw_lines, running, modified_settings, backups, now, taken>>

NextUtils == \E size_bytes \in Sizes : FormatFileSize(size_bytes)

SpecUtils == InitRegistry /\ [][NextUtils]_vars

\* C23 as stated (SpecRegistry): search(query) returns exactly the settings
\* for which the lower-cased query is a substring of the lower-cased name,
\* category, subcategory, key or one of the aliases.
Fields(info) ==
    {info.name, info.category, info.subcategory, info.key}
        \cup {info.search_aliases[a] : a \in 1..Len(info.search_aliases)}

Registered == {SETTINGS_DATABASE[i] : i \in 1..Len(SETTINGS_DATABASE)}

Found(results) == {results[i] : i \in 1..Len(results)}

C23_SearchExact_Original ==
    (last.op = "search_settings")
        => Found(last.results)
             = {info \in Registered :
                  \E text \in Fields(info) : Contains(Lower(text), Lower(last.query))}

\* C23 as amended (SpecRegistry): search(query) returns exactly the settings
\* for which the lower-cased query, with the whitespace around it removed,
\* is a substring of the lower-cased name, category, subcategory, key or one
\* of the aliases; each once; a query that is an alias of a setting returns
\* that setting, and a query matching no field returns nothing.
C23_SearchExact ==
    (last.op = "search_settings")
        => LET q == Strip(Lower(last.query))
               hits == {info \in Registered :
                          \E text \in Fields(info) : Contains(Lower(text), q)}
           IN  /\ Found(last.results) = hits
               /\ Len(last.results) = Cardinality(hits)
               /\ \A info \in Registered :
                      (\E a \in 1..Len(info.search_aliases) :
                           info.search_aliases[a] = last.query)
                         => info \in Found(last.results)
               /\ (hits = {}) => last.results = << >>

C23_Witness ==
    /\ last.op = "search_settings"
    /\ last.query = <<SP, "V", "s">>
    /\ last.results = <<VSyncMode>>

\* C24 (SpecUtils): format_file_size renders an exact power of 1024 with two
\* decimals and the matching unit: 1024 is "1.00 KB", 1024^2 is "1.00 MB",
\* 1024^3 is "1.00 GB".
C24_PowersOf1024 ==
    \A e \in 1..3 :
        (last.op = "format_file_size" /\ last.size_bytes = KiloPow(e))
            => last.result = <<"1", ".", "0", "0", " ">> \o size_names[e + 1]


\* C25 (SpecDoc): duplicate keys on serialize.  When a key occurs on several
\* lines of the source file, the serialization rewrites only the line of
\* its first occurrence, with the current value; every later line carrying
\* the same key is emitted unchanged.
C25_DuplicatesUntouched ==
    LET out == NewLines(raw_lines, config_data)
    IN  \A i \in 1..Len(raw_lines) :
           IsPairLine(raw_lines[i])
              => LET key == LineKey(raw_lines[i])
                     own == OwnLine(raw_lines, key)
                 IN  /\ Len(out) >= Len(raw_lines)
                     /\ (i # own) => out[i] = raw_lines[i]
                     /\ (i = own /\ DictHas(config_data, key))
                           => out[i] = KV(key, DictGet(config_data, key, NoValue))


\* first position of a whitespace character in s, 0 if there is none
RECURSIVE FirstBlank(_, _)
FirstBlank(s, i) ==
    IF i > Len(s) THEN 0
    ELSE IF IsSpace(s[i]) THEN i ELSE FirstBlank(s, i + 1)

\* a line that consists of a key, whitespace and a value
IsKeyBlankValue(line) == FirstBlank(Strip(line), 1) # 0

\* the key of such a line, and its value
KeyOf(line) ==
    SubSeq(Strip(line), 1, FirstBlank(Strip(line), 1) - 1)

ValueOf(line) ==
    Strip(SubSeq(Strip(line), FirstBlank(Strip(line), 1), Len(Strip(line))))

\* C26 (SpecLoad): parse result.  After a load the mapping holds exactly the
\* keys of the lines that consist of a key, whitespace and a value; blank
\* lines and lines with no whitespace are not entered; a key on several
\* lines has the value of its last occurrence; get(key, default) is the
\* mapped value, or the default for a key that is not mapped.
C26_ParseResult ==
    (last.op = "load" /\ last.ok)
        => LET lines == SplitLines(original_content)
               pairs == {i \in 1..Len(lines) : IsKeyBlankValue(lines[i])}
           IN  /\ DictKeys(config_data) = {KeyOf(lines[i]) : i \in pairs}
               /\ \A i \in pairs :
                      (\A j \in pairs : j > i => KeyOf(lines[j]) # KeyOf(lines[i]))
                         => DictGet(config_data, KeyOf(lines[i]), NoValue)
                               = ValueOf(lines[i])
               /\ \A key \in SetKeys :
                      ~DictHas(config_data, key)
                         => DictGet(config_data, key, NoValue) = NoValue


(***************************************************************************)
(* ConfigManager as an API: set() takes any strings, so a key may contain  *)
(* a space and a value may be empty or carry spaces around it.  Each save  *)
(* may add lines to the file; the length of the file is capped.            *)
(***************************************************************************)
KeySp == KeyA \o <<SP>> \o KeyB
ApiKeys == {KeyA, KeySp}
ApiValues == {Val1, << >>, <<SP>> \o Val1 \o <<SP>>}
MaxRawLines == 2

InitApi ==
    /\ disk = FilePlain
    /\ config_path = CfgPath
    /\ original_content = LoadOp(disk).original_content
    /\ raw_lines = LoadOp(disk).raw_lines
    /\ config_data = LoadOp(disk).config_data
    /\ running = FALSE
    /\ modified_settings = {}
    /\ backups = << >>
    /\ taken = {}
    /\ now = 0
    /\ last = Outcome("load", TRUE, "loaded", << >>, NullName)

ApiSave == Len(raw_lines) <= MaxRawLines /\ Save

NextApi ==
    \/ \E key \in ApiKeys, value \in ApiValues : Set(key, value)
    \/ ApiSave
    \/ Reload

SpecApi == InitApi /\ [][NextApi]_vars

\* C27 (SpecApi): save synchronizes memory with disk.  After every
\* successful save the file on disk is the serialized text, the stored raw
\* lines and the original content are that same text, has_changes() is
\* false, and a save repeated at once would write the same content.
C27_SaveSynchronizes ==
    [][(ApiSave /\ last'.ok)
          => /\ disk' = Serialize(raw_lines, config_data)
             /\ original_content' = disk'
             /\ JoinNL(raw_lines') = disk'
             /\ ~HasChanges(raw_lines', config_data')
             /\ Serialize(raw_lines', config_data') = disk']_vars


\* two mappings hold the same keys with the same values
SameMapping(d, e) ==
    /\ DictKeys(d) = DictKeys(e)
    /\ \A k \in DictKeys(d) : DictGet(d, k, NoValue) = DictGet(e, k, NoValue)

\* C29 (SpecApi): save/reload round trip.  For every mapping reachable by
\* set() calls, with empty values, values with spaces around them and keys
\* containing a space among them, a reload() right after a successful save
\* yields the mapping held just before the save.
C29_SaveReloadRoundTrip ==
    [][(last.op = "save" /\ last.ok /\ Reload /\ last'.ok)
          => SameMapping(config_data', config_data)]_vars


\* C28 (Spec): no write while the game runs.  In a state in which the
\* run-state guard reports running, no user operation of the application
\* (a setting change, applying a preset, save, restore backup) changes the
\* content of the config file on disk.
C28_NoWriteWhileRunning ==
    [][(/\ running
        /\ \/ \E key \in SetKeys, value \in SetValues :
                 OnSettingChanged(key, value)
           \/ \E id \in PresetIds : ApplyPreset(id)
           \/ SaveConfig
           \/ \E name \in DOMAIN backups \cup {NullName} : UiRestoreBackup(name))
          => disk' = disk]_vars

=============================================================================
